---- MODULE Spec2Model ----
(***************************************************************************)
(* State-machine model of the command execution and record-mapping layer   *)
(* of sf-sanctuary-cli: the executor _run_sf_command (in its two copies),  *)
(* UserManager.create_user / list_users / _get_profile_id / _parse_role    *)
(* and the two `create` command surfaces.                                  *)
(*                                                                         *)
(* One behaviour is one run of the command-line program: a command is      *)
(* started, every external invocation it issues is answered by the         *)
(* environment (the shell and the `sf` tool), and the command ends.        *)
(***************************************************************************)
EXTENDS Integers, Sequences, FiniteSets, TLC

(***************************************************************************)
(* Python values.  Every value carries its type tag, so that values of     *)
(* different Python types can be compared.                                 *)
(***************************************************************************)
PyNone == [t |-> "None", v |-> ""]
PyStr(s) == [t |-> "str", v |-> s]
PyInt(n) == [t |-> "int", v |-> n]
PyBool(b) == [t |-> "bool", v |-> b]
PyList(q) == [t |-> "list", v |-> q]
PyDict(f) == [t |-> "dict", v |-> f]
EmptyDict == [k \in {} |-> PyNone]

\* Python truth value testing (`if x`, `not x`, `a or b`).
Truthy(x) ==
    CASE x.t = "None" -> FALSE
      [] x.t = "str" -> x.v # ""
      [] x.t = "int" -> x.v # 0
      [] x.t = "bool" -> x.v
      [] x.t = "list" -> Len(x.v) > 0
      [] x.t = "dict" -> DOMAIN x.v # {}

\* `a or b`
PyOr(a, b) == IF Truthy(a) THEN a ELSE b

\* dict.get(key, default) on a dict value.
DictGet(d, key, default) == IF key \in DOMAIN d.v THEN d.v[key] ELSE default

DigitStr(d) ==
    CASE d = 0 -> "0" [] d = 1 -> "1" [] d = 2 -> "2" [] d = 3 -> "3"
      [] d = 4 -> "4" [] d = 5 -> "5" [] d = 6 -> "6" [] d = 7 -> "7"
      [] d = 8 -> "8" [] d = 9 -> "9"

RECURSIVE IntStr(_)
\* str(n) for n >= 0
IntStr(n) == IF n < 10 THEN DigitStr(n) ELSE IntStr(n \div 10) \o DigitStr(n % 10)

\* str(x) as an f-string renders it; the repr of a list or a dict is not
\* modelled (no modelled text puts one where it is formatted).
Format(x) ==
    CASE x.t = "None" -> "None"
      [] x.t = "str" -> x.v
      [] x.t = "bool" -> IF x.v THEN "True" ELSE "False"
      [] x.t = "int" -> IntStr(x.v)
      [] OTHER -> "<object>"

(***************************************************************************)
(* Strings.  Native strings with Len, \o and SubSeq.                       *)
(***************************************************************************)
Ch(s, i) == IF i >= 1 /\ i <= Len(s) THEN SubSeq(s, i, i) ELSE ""

StartsWithAt(s, i, lit) ==
    /\ i >= 1
    /\ i + Len(lit) - 1 <= Len(s)
    /\ SubSeq(s, i, i + Len(lit) - 1) = lit

\* Python `lit in s` on strings.
Contains(s, lit) == \E i \in 1..(Len(s) + 1) : StartsWithAt(s, i, lit)

\* Faulty variant: a string shorter than n is padded to n characters.
Prefix_padded(s, n) ==
    IF Len(s) < n THEN s \o SubSeq("_____", 1, IF n - Len(s) > 5 THEN 5 ELSE n - Len(s))
    ELSE SubSeq(s, 1, n)

\* Python s[:n]
Prefix(s, n) == SubSeq(s, 1, IF Len(s) < n THEN Len(s) ELSE n)

UpperOf(c) ==
    CASE c = "a" -> "A" [] c = "b" -> "B" [] c = "c" -> "C" [] c = "d" -> "D"
      [] c = "e" -> "E" [] c = "f" -> "F" [] c = "g" -> "G" [] c = "h" -> "H"
      [] c = "i" -> "I" [] c = "j" -> "J" [] c = "k" -> "K" [] c = "l" -> "L"
      [] c = "m" -> "M" [] c = "n" -> "N" [] c = "o" -> "O" [] c = "p" -> "P"
      [] c = "q" -> "Q" [] c = "r" -> "R" [] c = "s" -> "S" [] c = "t" -> "T"
      [] c = "u" -> "U" [] c = "v" -> "V" [] c = "w" -> "W" [] c = "x" -> "X"
      [] c = "y" -> "Y" [] c = "z" -> "Z" [] OTHER -> c

LowerOf(c) ==
    CASE c = "A" -> "a" [] c = "B" -> "b" [] c = "C" -> "c" [] c = "D" -> "d"
      [] c = "E" -> "e" [] c = "F" -> "f" [] c = "G" -> "g" [] c = "H" -> "h"
      [] c = "I" -> "i" [] c = "J" -> "j" [] c = "K" -> "k" [] c = "L" -> "l"
      [] c = "M" -> "m" [] c = "N" -> "n" [] c = "O" -> "o" [] c = "P" -> "p"
      [] c = "Q" -> "q" [] c = "R" -> "r" [] c = "S" -> "s" [] c = "T" -> "t"
      [] c = "U" -> "u" [] c = "V" -> "v" [] c = "W" -> "w" [] c = "X" -> "x"
      [] c = "Y" -> "y" [] c = "Z" -> "z" [] OTHER -> c

RECURSIVE upper(_)
\* str.upper()
upper(s) == IF s = "" THEN "" ELSE UpperOf(Head(s)) \o upper(Tail(s))

RECURSIVE lower(_)
\* str.lower()
lower(s) == IF s = "" THEN "" ELSE LowerOf(Head(s)) \o lower(Tail(s))

RECURSIVE join(_, _)
\* sep.join(parts)
join(sep, parts) ==
    IF Len(parts) = 0 THEN ""
    ELSE IF Len(parts) = 1 THEN parts[1]
    ELSE parts[1] \o sep \o join(sep, Tail(parts))

(***************************************************************************)
(* json.loads, for the JSON subset the modelled texts use: objects,        *)
(* arrays, strings without escapes, non-negative integers, true, false,    *)
(* null, and blanks between tokens.                                        *)
(***************************************************************************)
Blank == {" ", "\n", "\t"}
Digit == {"0", "1", "2", "3", "4", "5", "6", "7", "8", "9"}

DigitVal(c) ==
    CASE c = "0" -> 0 [] c = "1" -> 1 [] c = "2" -> 2 [] c = "3" -> 3
      [] c = "4" -> 4 [] c = "5" -> 5 [] c = "6" -> 6 [] c = "7" -> 7
      [] c = "8" -> 8 [] c = "9" -> 9

RECURSIVE SkipWs(_, _)
SkipWs(s, i) == IF Ch(s, i) \in Blank THEN SkipWs(s, i + 1) ELSE i

RECURSIVE StrEnd(_, _)
\* Position of the quote closing a string whose content starts at i; 0 if none.
StrEnd(s, i) ==
    IF i > Len(s) THEN 0
    ELSE IF Ch(s, i) = "\"" THEN i
    ELSE StrEnd(s, i + 1)

RECURSIVE NumEnd(_, _)
\* Position after the run of digits starting at i.
NumEnd(s, i) == IF Ch(s, i) \in Digit THEN NumEnd(s, i + 1) ELSE i

RECURSIVE NumVal(_, _, _)
NumVal(s, i, e) ==
    IF e < i THEN 0 ELSE 10 * NumVal(s, i, e - 1) + DigitVal(Ch(s, e))

ParseFail == [ok |-> FALSE, val |-> PyNone, next |-> 0]
ParseOk(val, next) == [ok |-> TRUE, val |-> val, next |-> next]

RECURSIVE ParseValue(_, _)
RECURSIVE ParseMembers(_, _, _, _)
RECURSIVE ParseElements(_, _, _, _)

\* The value starting at (or after blanks at) position i.
ParseValue(s, i) ==
    LET j == SkipWs(s, i)
        c == Ch(s, j)
    IN  CASE c = "{" -> ParseMembers(s, SkipWs(s, j + 1), EmptyDict, TRUE)
          [] c = "[" -> ParseElements(s, SkipWs(s, j + 1), <<>>, TRUE)
          [] c = "\"" ->
                LET e == StrEnd(s, j + 1)
                IN  IF e = 0 THEN ParseFail
                    ELSE ParseOk(PyStr(SubSeq(s, j + 1, e - 1)), e + 1)
          [] c = "0" -> ParseOk(PyInt(0), j + 1)
          [] c \in Digit \ {"0"} ->
                LET e == NumEnd(s, j)
                IN  ParseOk(PyInt(NumVal(s, j, e - 1)), e)
          [] StartsWithAt(s, j, "true") -> ParseOk(PyBool(TRUE), j + 4)
          [] StartsWithAt(s, j, "false") -> ParseOk(PyBool(FALSE), j + 5)
          [] StartsWithAt(s, j, "null") -> ParseOk(PyNone, j + 4)
          [] OTHER -> ParseFail

\* The members of an object, i past the brace or the comma; a repeated key
\* keeps its last value, as a Python dict does.
ParseMembers(s, i, acc, first) ==
    IF first /\ Ch(s, i) = "}" THEN ParseOk(PyDict(acc), i + 1)
    ELSE IF Ch(s, i) # "\"" THEN ParseFail
    ELSE LET e == StrEnd(s, i + 1)
             c == IF e = 0 THEN 0 ELSE SkipWs(s, e + 1)
         IN  IF e = 0 \/ Ch(s, c) # ":" THEN ParseFail
             ELSE LET r == ParseValue(s, c + 1)
                      n == IF r.ok THEN SkipWs(s, r.next) ELSE 0
                      key == SubSeq(s, i + 1, e - 1)
                      acc2 == (key :> r.val) @@ acc
                  IN  IF ~r.ok THEN ParseFail
                      ELSE IF Ch(s, n) = "}" THEN ParseOk(PyDict(acc2), n + 1)
                      ELSE IF Ch(s, n) = ","
                           THEN ParseMembers(s, SkipWs(s, n + 1), acc2, FALSE)
                      ELSE ParseFail

\* The elements of an array, i past the bracket or the comma.
ParseElements(s, i, acc, first) ==
    IF first /\ Ch(s, i) = "]" THEN ParseOk(PyList(acc), i + 1)
    ELSE LET r == ParseValue(s, i)
             n == IF r.ok THEN SkipWs(s, r.next) ELSE 0
             acc2 == Append(acc, r.val)
         IN  IF ~r.ok THEN ParseFail
             ELSE IF Ch(s, n) = "]" THEN ParseOk(PyList(acc2), n + 1)
             ELSE IF Ch(s, n) = ","
                  THEN ParseElements(s, SkipWs(s, n + 1), acc2, FALSE)
             ELSE ParseFail

\* json.loads(text): the parsed document, or JSONDecodeError (ok = FALSE) when
\* the text is empty, malformed or followed by extra data.
json_loads(text) ==
    LET r == ParseValue(text, 1)
    IN  IF r.ok /\ SkipWs(text, r.next) = Len(text) + 1
        THEN [ok |-> TRUE, val |-> r.val]
        ELSE [ok |-> FALSE, val |-> PyNone]

(***************************************************************************)
(* Python operations that can raise.  A result is the value or the name of *)
(* the exception raised.                                                   *)
(***************************************************************************)
PyOk(x) == [ok |-> TRUE, val |-> x, exc |-> ""]
PyExc(name) == [ok |-> FALSE, val |-> PyNone, exc |-> name]

\* x.get(key, default): only a dict has the method.
Get(x, key, default) ==
    IF x.t = "dict" THEN PyOk(DictGet(x, key, default)) ELSE PyExc("AttributeError")

\* x[key] for a string key.
Subscript(x, key) ==
    IF x.t = "dict"
    THEN IF key \in DOMAIN x.v THEN PyOk(x.v[key]) ELSE PyExc("KeyError")
    ELSE PyExc("TypeError")

\* x[0]
First(x) ==
    CASE x.t = "list" -> IF Len(x.v) > 0 THEN PyOk(x.v[1]) ELSE PyExc("IndexError")
      [] x.t = "str" -> IF x.v # "" THEN PyOk(PyStr(Ch(x.v, 1))) ELSE PyExc("IndexError")
      [] x.t = "dict" -> PyExc("KeyError")
      [] OTHER -> PyExc("TypeError")

(***************************************************************************)
(* Results of a call: what it returned, or the exception it raised.  kind  *)
(* names the failure by the place that raised it: CommandFailed,           *)
(* ExecutableNotFound, ResponseParseError, ProfileNotFound, InvalidRole    *)
(* for the failures the code raises on purpose, Unexpected for the         *)
(* catch-all, and the exception's own class for one that escapes.          *)
(***************************************************************************)
Returned(x) ==
    [status |-> "returned", exc |-> "", kind |-> "", msg |-> PyNone, value |-> x]
Raised(exc, kind, msg) ==
    [status |-> "raised", exc |-> exc, kind |-> kind, msg |-> msg, value |-> PyNone]
Escaped(exc) == Raised(exc, exc, PyNone)
NoResult == [status |-> "", exc |-> "", kind |-> "", msg |-> PyNone, value |-> PyNone]

(***************************************************************************)
(* The process launch.  An answer of the environment says whether the      *)
(* shell could be spawned, whether the shell finds `sf`, and what `sf`     *)
(* does: exit code, standard output, standard error.                       *)
(***************************************************************************)
ShellNotFoundText == "/bin/sh: 1: sf: not found\n"

\* f"sf {command} --json"
CommandLine(command) == "sf " \o command \o " --json"

\* subprocess.run(line, shell=True, check=True, stdout=PIPE, stderr=PIPE,
\* text=True): the shell runs the line; a shell that cannot resolve `sf` exits
\* with 127 and reports it on standard error; check=True raises
\* CalledProcessError on a non-zero exit code.
subprocess_run(line, env) ==
    LET code == IF env.sf THEN env.returncode ELSE 127
        out == IF env.sf THEN env.stdout ELSE ""
        err == IF env.sf THEN env.stderr ELSE ShellNotFoundText
    IN  IF env.spawn # "ok"
        THEN [raised |-> env.spawn, returncode |-> 0, stdout |-> "", stderr |-> ""]
        ELSE [raised |-> IF code # 0 THEN "CalledProcessError" ELSE "",
              returncode |-> code, stdout |-> out, stderr |-> err]

DefaultFailure == "Salesforce CLI command failed."
NotFoundMessage ==
    "The 'sf' command was not found. Please ensure Salesforce CLI is installed and in your PATH."

\* _run_sf_command, lines 58-66: standard error is not empty and `parsed` is
\* what json.loads makes of it.  A raise inside the handler of
\* CalledProcessError is not caught by the handlers that follow it.
run_sf_command_stderr(stderr, parsed) ==
    IF ~parsed.ok
    THEN Raised("ClickException", "CommandFailed",
           PyStr("Salesforce CLI command failed with error: " \o stderr))
    ELSE IF parsed.val.t # "dict" THEN Escaped("AttributeError")
    ELSE Raised("ClickException", "CommandFailed",
           DictGet(parsed.val, "message", PyStr(DefaultFailure)))

\* Faulty variant: the executor hands back the `result` member, not the document.
run_sf_command_stdout_payload(parsed) ==
    IF parsed.ok
    THEN Returned(IF parsed.val.t = "dict" THEN DictGet(parsed.val, "result", PyNone)
                  ELSE parsed.val)
    ELSE Raised("ClickException", "ResponseParseError",
           PyStr("Error parsing JSON output from Salesforce CLI: JSONDecodeError"))

\* Faulty variant: an output that does not parse is taken for an empty document.
run_sf_command_stdout_silent(parsed) ==
    IF parsed.ok THEN Returned(parsed.val) ELSE Returned(PyDict(EmptyDict))

\* _run_sf_command, line 54 and lines 73-76: `parsed` is what json.loads makes
\* of standard output.
run_sf_command_stdout(parsed) ==
    IF parsed.ok THEN Returned(parsed.val)
    ELSE Raised("ClickException", "ResponseParseError",
           PyStr("Error parsing JSON output from Salesforce CLI: JSONDecodeError"))

\* _run_sf_command, lines 54-78: `p` is what subprocess.run did.
run_sf_command_completed(p) ==
    CASE p.raised = "CalledProcessError" ->
            IF p.stderr # ""
            THEN run_sf_command_stderr(p.stderr, json_loads(p.stderr))
            ELSE Raised("ClickException", "CommandFailed", PyStr(DefaultFailure))
      [] p.raised = "FileNotFoundError" ->
            Raised("ClickException", "ExecutableNotFound", PyStr(NotFoundMessage))
      [] p.raised = "" -> run_sf_command_stdout(json_loads(p.stdout))
      [] OTHER ->
            Raised("ClickException", "Unexpected",
              PyStr("An unexpected error occurred: " \o p.raised))

\* utils/sf_command_executor.py: _run_sf_command
run_sf_command(command, env) ==
    run_sf_command_completed(subprocess_run(CommandLine(command), env))

\* UserManager._run_sf_command, lines 81-82: `error` is what json.loads makes
\* of standard error; a JSONDecodeError is not caught.
UserManager_run_sf_command_error(error) ==
    IF ~error.ok THEN Escaped("JSONDecodeError")
    ELSE IF error.val.t # "dict" THEN Escaped("AttributeError")
    ELSE Raised("ClickException", "CommandFailed",
           DictGet(error.val, "message", PyStr("Command failed")))

\* UserManager._run_sf_command, line 79: `parsed` is what json.loads makes of
\* standard output; a JSONDecodeError is not caught.
UserManager_run_sf_command_stdout(parsed) ==
    IF parsed.ok THEN Returned(parsed.val) ELSE Escaped("JSONDecodeError")

\* UserManager._run_sf_command, lines 79-82: `p` is what subprocess.run did;
\* only CalledProcessError is caught.
UserManager_run_sf_command_completed(p) ==
    CASE p.raised = "CalledProcessError" ->
            IF p.stderr # ""
            THEN UserManager_run_sf_command_error(json_loads(p.stderr))
            ELSE Raised("ClickException", "CommandFailed", PyStr("Unknown error"))
      [] p.raised = "" -> UserManager_run_sf_command_stdout(json_loads(p.stdout))
      [] OTHER -> Escaped(p.raised)

\* sf_users/commands/sf_users_cli.py: UserManager._run_sf_command
UserManager_run_sf_command(command, env) ==
    UserManager_run_sf_command_completed(subprocess_run(CommandLine(command), env))

\* The executor the running program uses.
Execute(i, command, env) ==
    IF i = "shared" THEN run_sf_command(command, env)
    ELSE UserManager_run_sf_command(command, env)

(***************************************************************************)
(* models/user_model.py                                                    *)
(***************************************************************************)
\* The members of the enumeration UserRole, by name.
UserRole == {"STANDARD", "ADMIN", "READ_ONLY"}

\* role.value: the profile display name bound to the member.
RoleValue(r) ==
    CASE r = "STANDARD" -> "Standard User"
      [] r = "ADMIN" -> "System Administrator"
      [] r = "READ_ONLY" -> "Read Only"

\* Faulty variant: a name that is no member falls back to STANDARD.
UserRoleByName_default(name) ==
    IF name \in {"STANDARD", "ADMIN", "READ_ONLY"} THEN PyOk(PyStr(name))
    ELSE PyOk(PyStr("STANDARD"))

\* UserRole[name]
UserRoleByName(name) ==
    IF name \in UserRole THEN PyOk(PyStr(name)) ELSE PyExc("KeyError")

\* User(...): id defaults to None, is_active to True.
User(id, username, email, first_name, last_name, role, is_active) ==
    [id |-> id, username |-> username, email |-> email, first_name |-> first_name,
     last_name |-> last_name, role |-> role, is_active |-> is_active]

(***************************************************************************)
(* managers/user_manager.py (and its copy in sf_users_cli.py)              *)
(***************************************************************************)
\* f'data query --query "{query}"'
query_command(query) == "data query --query \"" \o query \o "\""

\* Faulty variant: the lookup filters on the member's name, not on its display name.
profile_query_by_name(role) == "SELECT Id FROM Profile WHERE Name = '" \o role \o "'"

\* _get_profile_id: the lookup query
profile_query(role) == "SELECT Id FROM Profile WHERE Name = '" \o RoleValue(role) \o "'"

\* Faulty variant: the last record wins, not the first.
get_profile_id_last(role, result) ==
    LET a == Get(result, "result", PyDict(EmptyDict))
        records == IF a.ok THEN Get(a.val, "records", PyNone) ELSE a
        last == IF records.ok /\ records.val.t = "list" /\ Len(records.val.v) > 0
                THEN PyOk(records.val.v[Len(records.val.v)])
                ELSE PyExc("TypeError")
        id == IF last.ok THEN Subscript(last.val, "Id") ELSE last
    IN  IF ~records.ok THEN Escaped(records.exc)
        ELSE IF ~Truthy(records.val)
        THEN Raised("ClickException", "ProfileNotFound",
               PyStr("Profile not found for role: " \o RoleValue(role)))
        ELSE IF ~id.ok THEN Escaped(id.exc)
        ELSE Returned(id.val)

\* _get_profile_id, after the executor returned `result`
get_profile_id(role, result) ==
    LET a == Get(result, "result", PyDict(EmptyDict))
        records == IF a.ok THEN Get(a.val, "records", PyNone) ELSE a
        first == IF records.ok THEN First(records.val) ELSE records
        id == IF first.ok THEN Subscript(first.val, "Id") ELSE first
    IN  IF ~records.ok THEN Escaped(records.exc)
        ELSE IF ~Truthy(records.val)
        THEN Raised("ClickException", "ProfileNotFound",
               PyStr("Profile not found for role: " \o RoleValue(role)))
        ELSE IF ~id.ok THEN Escaped(id.exc)
        ELSE Returned(id.val)

\* Faulty variant: Username carries the user's username, not the email.
create_values_username(user, profile_id) ==
    << "Username=" \o Format(PyOr(user.username, user.email)),
       "Email=" \o Format(user.email),
       IF Truthy(user.first_name) THEN "FirstName=" \o Format(user.first_name) ELSE "",
       "LastName=" \o Format(user.last_name),
       IF Truthy(user.username) THEN "Alias=" \o Prefix(user.username.v, 5) ELSE "",
       "ProfileId=" \o Format(profile_id),
       "TimeZoneSidKey=America/New_York",
       "LocaleSidKey=en_US",
       "EmailEncodingKey=UTF-8",
       "LanguageLocaleKey=en_US" >>

\* create_user: the list `values`, given the identifier the lookup returned
create_values(user, profile_id) ==
    << "Username=" \o Format(user.email),
       "Email=" \o Format(user.email),
       IF Truthy(user.first_name) THEN "FirstName=" \o Format(user.first_name) ELSE "",
       "LastName=" \o Format(user.last_name),
       IF Truthy(user.username) THEN "Alias=" \o Prefix(user.username.v, 5) ELSE "",
       "ProfileId=" \o Format(profile_id),
       "TimeZoneSidKey=America/New_York",
       "LocaleSidKey=en_US",
       "EmailEncodingKey=UTF-8",
       "LanguageLocaleKey=en_US" >>

\* (value for value in values if value)
emitted(values) == LET kept(value) == value # "" IN SelectSeq(values, kept)

\* create_user: the command
create_command(values) ==
    "data create record --sobject User --values \"" \o join(" ", emitted(values)) \o "\""

\* Faulty variant: a response without an id gets an identifier made up locally.
created_id_guess(result) ==
    LET a == Subscript(result, "result")
        b == IF a.ok THEN Subscript(a.val, "id") ELSE a
    IN  IF b.ok THEN b ELSE PyOk(PyStr("new-user"))

\* create_user, after the executor returned `result`: result["result"]["id"]
created_id(result) ==
    LET a == Subscript(result, "result")
        b == IF a.ok THEN Subscript(a.val, "id") ELSE a
    IN  b

\* Faulty variant: the filter is there whatever active_only is.
users_query_filtered(active_only) ==
    "SELECT Id, Username, Email, FirstName, LastName, Profile.Name, IsActive "
      \o "FROM User WHERE IsActive = true ORDER BY LastName"

\* list_users: the query
users_query(active_only) ==
    LET where_clause == IF active_only THEN "WHERE IsActive = true" ELSE ""
    IN  "SELECT Id, Username, Email, FirstName, LastName, Profile.Name, IsActive "
          \o "FROM User " \o where_clause \o " ORDER BY LastName"

\* Faulty variant: the name must equal the keyword, not contain it.
parse_role_exact(profile_name) ==
    IF ~Truthy(profile_name) THEN PyOk(PyStr("STANDARD"))
    ELSE IF profile_name.t # "str" THEN PyExc("TypeError")
    ELSE IF profile_name.v = "Administrator" THEN PyOk(PyStr("ADMIN"))
    ELSE IF profile_name.v = "Read Only" THEN PyOk(PyStr("READ_ONLY"))
    ELSE PyOk(PyStr("STANDARD"))

\* Faulty variant: the keywords are looked for whatever their case.
parse_role_nocase(profile_name) ==
    IF ~Truthy(profile_name) THEN PyOk(PyStr("STANDARD"))
    ELSE IF profile_name.t # "str" THEN PyExc("TypeError")
    ELSE IF Contains(lower(profile_name.v), "administrator") THEN PyOk(PyStr("ADMIN"))
    ELSE IF Contains(lower(profile_name.v), "read only") THEN PyOk(PyStr("READ_ONLY"))
    ELSE PyOk(PyStr("STANDARD"))

\* _parse_role
parse_role(profile_name) ==
    IF ~Truthy(profile_name) THEN PyOk(PyStr("STANDARD"))
    ELSE IF profile_name.t # "str" THEN PyExc("TypeError")
    ELSE IF Contains(profile_name.v, "Administrator") THEN PyOk(PyStr("ADMIN"))
    ELSE IF Contains(profile_name.v, "Read Only") THEN PyOk(PyStr("READ_ONLY"))
    ELSE PyOk(PyStr("STANDARD"))

\* Faulty variant: a record without IsActive gives an active user.
record_to_user_active(record) ==
    LET p == Get(record, "Profile", PyNone)
        n == IF p.ok /\ Truthy(p.val) THEN Get(p.val, "Name", PyNone) ELSE PyOk(PyNone)
        role == IF n.ok THEN parse_role(n.val) ELSE n
    IN  IF ~p.ok THEN [ok |-> FALSE, exc |-> p.exc, user |-> <<>>]
        ELSE IF ~role.ok THEN [ok |-> FALSE, exc |-> role.exc, user |-> <<>>]
        ELSE [ok |-> TRUE, exc |-> "",
              user |-> << User(DictGet(record, "Id", PyNone),
                               DictGet(record, "Username", PyNone),
                               DictGet(record, "Email", PyNone),
                               DictGet(record, "FirstName", PyNone),
                               DictGet(record, "LastName", PyNone),
                               role.val.v,
                               DictGet(record, "IsActive", PyBool(TRUE))) >>]

\* list_users: the User built from one record; ok = FALSE with the exception
\* when the record has not the shape the code reads.
record_to_user(record) ==
    LET p == Get(record, "Profile", PyNone)
        n == IF p.ok /\ Truthy(p.val) THEN Get(p.val, "Name", PyNone) ELSE PyOk(PyNone)
        role == IF n.ok THEN parse_role(n.val) ELSE n
    IN  IF ~p.ok THEN [ok |-> FALSE, exc |-> p.exc, user |-> <<>>]
        ELSE IF ~role.ok THEN [ok |-> FALSE, exc |-> role.exc, user |-> <<>>]
        ELSE [ok |-> TRUE, exc |-> "",
              user |-> << User(DictGet(record, "Id", PyNone),
                               DictGet(record, "Username", PyNone),
                               DictGet(record, "Email", PyNone),
                               DictGet(record, "FirstName", PyNone),
                               DictGet(record, "LastName", PyNone),
                               role.val.v,
                               DictGet(record, "IsActive", PyBool(FALSE))) >>]

RECURSIVE records_to_users(_, _)
\* list_users: the loop over the records, `acc` the users appended so far
records_to_users(records, acc) ==
    IF Len(records) = 0 THEN [ok |-> TRUE, exc |-> "", users |-> acc]
    ELSE LET u == record_to_user(Head(records))
         IN  IF ~u.ok THEN [ok |-> FALSE, exc |-> u.exc, users |-> <<>>]
             ELSE records_to_users(Tail(records), acc \o u.user)

\* list_users, after the executor returned `result`
listed_users(result) ==
    LET a == Get(result, "result", PyDict(EmptyDict))
        records == IF a.ok THEN Get(a.val, "records", PyList(<<>>)) ELSE a
    IN  IF ~records.ok THEN [ok |-> FALSE, exc |-> records.exc, users |-> <<>>]
        ELSE CASE records.val.t = "list" -> records_to_users(records.val.v, <<>>)
               [] records.val.t \in {"str", "dict"} ->
                    IF Truthy(records.val)
                    THEN [ok |-> FALSE, exc |-> "AttributeError", users |-> <<>>]
                    ELSE [ok |-> TRUE, exc |-> "", users |-> <<>>]
               [] OTHER -> [ok |-> FALSE, exc |-> "TypeError", users |-> <<>>]

(***************************************************************************)
(* The inputs of the model: what the user types and what the environment   *)
(* answers.                                                                *)
(***************************************************************************)
\* The longest list of records a modelled query answer holds.
MaxRecords == 2

\* The program that runs: sf_cli.py with managers/ and utils/ ("shared"), or
\* the self-contained sf_users/commands/sf_users_cli.py ("sf_users").
Impls == {"shared", "sf_users"}
Orgs == {"default", "qa"}

Emails == {"", "a@x.com"}
FirstNames == {PyNone, PyStr("Al")}
LastNames == {"Doe"}
Usernames == {PyNone, PyStr("ab"), PyStr("abcdefg")}
RoleKeys == {"standard", "admin", "read_only", "readonly", "guest"}

\* Users handed to UserManager.create_user by a caller other than the command.
ApiUsers ==
    { User(PyNone, PyNone, PyNone, PyNone, PyNone, "STANDARD", PyBool(TRUE)),
      User(PyNone, PyStr(""), PyStr(""), PyStr(""), PyStr(""), "READ_ONLY", PyBool(TRUE)),
      User(PyNone, PyStr("u5"), PyStr("b@x.com"), PyStr(""), PyStr("Roe"), "ADMIN",
           PyBool(TRUE)) }

Ids == {"P1", "P2"}
IdLists == UNION {[1..k -> Ids] : k \in 0..MaxRecords}

RecordText(id) == "{\"Id\":\"" \o id \o "\"}"
RecordsText(ids) ==
    "{\"result\":{\"records\":["
      \o join(",", [i \in 1..Len(ids) |-> RecordText(ids[i])]) \o "]}}"

UsersText ==
    "{\"status\":0,\"result\":{\"records\":["
      \o "{\"Id\":\"U1\",\"Username\":\"a@x.com\",\"Email\":\"a@x.com\","
      \o "\"FirstName\":\"Al\",\"LastName\":\"Doe\",\"IsActive\":true,"
      \o "\"Profile\":{\"Name\":\"System Administrator\"}},"
      \o "{\"Id\":\"U2\",\"LastName\":\"Roe\",\"Profile\":null}],"
      \o "\"totalSize\":2}}"

StdoutTexts ==
    {RecordsText(q) : q \in IdLists} \cup
    { "", "boom", "[]", "{}", "{\"result\":{}}", "{\"result\":[]}",
      "{\"result\":{\"id\":\"U1\"}}", " {\"status\":0, \"result\":{\"id\":\"U2\"}}\n",
      UsersText }

StderrTexts ==
    { "", "boom", "{\"message\":\"dup\"}", "{}", "{\"name\":\"E\"}", "[]", "\"dup\"",
      "{\"message\":\"Profile not found for role: System Administrator\"}" }

Answer(spawn, sf, returncode, stdout, stderr) ==
    [spawn |-> spawn, sf |-> sf, returncode |-> returncode,
     stdout |-> stdout, stderr |-> stderr]

\* The records a users query can answer with: every field, or few of them,
\* with the Profile absent, null, empty or carrying one name or another.
UserRecordTexts ==
    { "{\"Id\":\"U1\",\"Username\":\"a@x.com\",\"Email\":\"a@x.com\","
        \o "\"FirstName\":\"Al\",\"LastName\":\"Doe\",\"IsActive\":true,"
        \o "\"Profile\":{\"Name\":\"System Administrator\"}}",
      "{\"Id\":\"U2\",\"LastName\":\"Roe\",\"IsActive\":false,"
        \o "\"Profile\":{\"Name\":\"Standard User\"}}",
      "{\"Id\":\"U3\",\"Email\":\"c@x.com\",\"Profile\":{\"Name\":\"Read Only\"}}",
      "{\"Id\":\"U4\",\"IsActive\":true}",
      "{\"Id\":\"U5\",\"Profile\":null}",
      "{\"Id\":\"U6\",\"Profile\":{\"Name\":\"\"}}",
      "{\"Id\":\"U7\",\"Profile\":{\"Name\":\"Guest read only administrator\"}}",
      "{\"Profile\":{\"Name\":\"Custom Read Only Administrator\"}}" }

UserRecordLists == UNION {[1..k -> UserRecordTexts] : k \in 0..MaxRecords}

UserRecordsText(texts) ==
    "{\"status\":0,\"result\":{\"records\":[" \o join(",", texts) \o "]}}"

\* What one external invocation can meet.
Answers ==
    {Answer("ok", TRUE, 0, out, "") : out \in StdoutTexts} \cup
    {Answer("ok", TRUE, 1, "", err) : err \in StderrTexts} \cup
    { Answer("ok", TRUE, 0, "{\"result\":{\"id\":\"U1\"}}", "warning"),
      Answer("ok", FALSE, 0, "", ""),
      Answer("FileNotFoundError", TRUE, 0, "", ""),
      Answer("PermissionError", TRUE, 0, "", "") }

\* What the users query can meet: the same, and the lists of user records.
UserQueryAnswers ==
    Answers \cup {Answer("ok", TRUE, 0, UserRecordsText(l), "") : l \in UserRecordLists}

(***************************************************************************)
(* The state.                                                              *)
(***************************************************************************)
VARIABLES
    pc,          \* "idle", "lookup", "create", "query" (an invocation is running), "done"
    impl,        \* the program that runs
    target_org,  \* UserManager.target_org
    args,        \* the command started and its options
    user,        \* create: the User object, <<>> before it is built
    users,       \* list_users: the list returned
    profile_id,  \* create_user: what _get_profile_id returned
    values,      \* create_user: the list `values`
    log,         \* the command lines spawned so far, in order
    resps,       \* the environment's answers, in order
    rets,        \* what the executor returned or raised for each, in order
    outcome      \* how the command ended

vars == <<pc, impl, target_org, args, user, users, profile_id, values, log, resps,
          rets, outcome>>

NoArgs == [cmd |-> "", role |-> "", active_only |-> FALSE]

\* sf_cli.py cli / users, sf_users_cli.py cli: the manager is constructed with
\* the --org option; no command runs yet.
Init ==
    /\ pc = "idle"
    /\ impl \in Impls
    /\ target_org \in Orgs
    /\ args = NoArgs
    /\ user = <<>>
    /\ users = <<>>
    /\ profile_id = PyNone
    /\ values = <<>>
    /\ log = <<>>
    /\ resps = <<>>
    /\ rets = <<>>
    /\ outcome = NoResult

\* click.Choice of the --role option
RoleChoices(i) ==
    IF i = "shared" THEN {lower(r) : r \in UserRole}
    ELSE {"standard", "admin", "readonly"}

\* sf_users_cli.py create: `except Exception` prints the error and raises
\* click.Abort; users_commands.py create lets the exception through.
CreateRaises(i, o) == IF i = "sf_users" THEN Raised("Abort", o.kind, o.msg) ELSE o

\* How a command that raised ends.
Finish(o) == IF args.cmd = "create" THEN CreateRaises(impl, o) ELSE o

\* create_user, up to the spawn of the profile lookup
StartCreateUser(u) ==
    /\ user' = <<u>>
    /\ log' = Append(log, CommandLine(query_command(profile_query(u.role))))
    /\ pc' = "lookup"
    /\ UNCHANGED <<impl, target_org, users, profile_id, values, resps, rets, outcome>>

\* The create command: the option check, the role lookup, the User, and
\* create_user up to its first spawn.
Create(email, first_name, last_name, role, username) ==
    /\ pc = "idle"
    /\ args' = [cmd |-> "create", role |-> role, active_only |-> FALSE]
    /\ LET user_role == UserRoleByName(upper(role))
       IN  IF role \notin RoleChoices(impl)
           THEN /\ pc' = "done"
                /\ outcome' = Raised("BadParameter", "InvalidRole", PyStr(role))
                /\ UNCHANGED <<impl, target_org, user, users, profile_id, values,
                               log, resps, rets>>
           ELSE IF ~user_role.ok
           THEN /\ pc' = "done"
                /\ outcome' =
                     CreateRaises(impl, Raised("KeyError", "InvalidRole", PyStr(upper(role))))
                /\ UNCHANGED <<impl, target_org, user, users, profile_id, values,
                               log, resps, rets>>
           ELSE StartCreateUser(User(PyNone, PyOr(username, PyStr(email)), PyStr(email),
                                     first_name, PyStr(last_name), user_role.val.v,
                                     PyBool(TRUE)))

\* UserManager.create_user called with a User built elsewhere.
CreateUser(u) ==
    /\ pc = "idle"
    /\ args' = [cmd |-> "create_user", role |-> "", active_only |-> FALSE]
    /\ StartCreateUser(u)

\* Faulty variant: a lookup that failed is spawned a second time.
ProfileResolved_retry(g) ==
    IF g.status = "raised" /\ Len(log) < 2
    THEN /\ log' = Append(log, log[Len(log)])
         /\ pc' = "lookup"
         /\ UNCHANGED <<profile_id, values, outcome>>
    ELSE IF g.status = "raised"
    THEN /\ pc' = "done"
         /\ outcome' = Finish(g)
         /\ UNCHANGED <<profile_id, values, log>>
    ELSE /\ profile_id' = g.value
         /\ values' = create_values(user[1], g.value)
         /\ log' = Append(log, CommandLine(create_command(values')))
         /\ pc' = "create"
         /\ UNCHANGED outcome

\* Faulty variant: a lookup that failed leaves the profile unset and the
\* create-record command is spawned all the same.
ProfileResolved_unset(g) ==
    /\ profile_id' = (IF g.status = "raised" THEN PyNone ELSE g.value)
    /\ values' = create_values(user[1], profile_id')
    /\ log' = Append(log, CommandLine(create_command(values')))
    /\ pc' = "create"
    /\ UNCHANGED outcome

\* create_user after its lookup: `g` is what _get_profile_id returned or
\* raised.  On a return the list `values` is completed and the create-record
\* command is spawned.
ProfileResolved(g) ==
    IF g.status = "raised"
    THEN /\ pc' = "done"
         /\ outcome' = Finish(g)
         /\ UNCHANGED <<profile_id, values, log>>
    ELSE /\ profile_id' = g.value
         /\ values' = create_values(user[1], g.value)
         /\ log' = Append(log, CommandLine(create_command(values')))
         /\ pc' = "create"
         /\ UNCHANGED outcome

\* `r` is what the executor returned or raised for the profile lookup.
ProfileLookupExecuted(env, r) ==
    /\ resps' = Append(resps, env)
    /\ rets' = Append(rets, r)
    /\ ProfileResolved(IF r.status = "returned"
                       THEN get_profile_id(user[1].role, r.value) ELSE r)

\* The profile lookup exits: the executor's part, the rest of _get_profile_id,
\* and create_user up to the spawn of the create-record command.
ProfileLookupExits(env) ==
    /\ pc = "lookup"
    /\ ProfileLookupExecuted(env,
         Execute(impl, query_command(profile_query(user[1].role)), env))
    /\ UNCHANGED <<impl, target_org, args, user, users>>

\* `r` is what the executor returned or raised for the create-record command,
\* `id` the result["result"]["id"] of a return.
CreateRecordExecuted(env, r, id) ==
    /\ resps' = Append(resps, env)
    /\ rets' = Append(rets, r)
    /\ pc' = "done"
    /\ IF r.status = "raised"
       THEN outcome' = Finish(r) /\ UNCHANGED user
       ELSE IF ~id.ok
       THEN outcome' = Finish(Escaped(id.exc)) /\ UNCHANGED user
       ELSE /\ user' = <<[user[1] EXCEPT !.id = id.val]>>
            /\ outcome' = Returned(PyNone)

\* The create-record command exits: the executor's part and the end of
\* create_user.
CreateRecordExits(env) ==
    /\ pc = "create"
    /\ CreateRecordExecuted(env, Execute(impl, create_command(values), env),
         created_id(rets'[Len(rets')].value))
    /\ UNCHANGED <<impl, target_org, args, users, profile_id, values, log>>

\* The list_users command, up to the spawn of the query.
ListUsers(active_only) ==
    /\ pc = "idle"
    /\ args' = [cmd |-> "list_users", role |-> "", active_only |-> active_only]
    /\ log' = Append(log, CommandLine(query_command(users_query(active_only))))
    /\ pc' = "query"
    /\ UNCHANGED <<impl, target_org, user, users, profile_id, values, resps, rets,
                   outcome>>

\* `r` is what the executor returned or raised for the users query, `l` the
\* users list_users maps a return to.
UserQueryExecuted(env, r, l) ==
    /\ resps' = Append(resps, env)
    /\ rets' = Append(rets, r)
    /\ pc' = "done"
    /\ IF r.status = "raised"
       THEN outcome' = Finish(r) /\ UNCHANGED users
       ELSE IF ~l.ok
       THEN outcome' = Finish(Escaped(l.exc)) /\ UNCHANGED users
       ELSE users' = l.users /\ outcome' = Returned(PyNone)

\* The users query exits: the executor's part and the rest of list_users.
UserQueryExits(env) ==
    /\ pc = "query"
    /\ UserQueryExecuted(env,
         Execute(impl, query_command(users_query(args.active_only)), env),
         listed_users(rets'[Len(rets')].value))
    /\ UNCHANGED <<impl, target_org, args, user, profile_id, values, log>>

Next ==
    \/ \E email \in Emails, first_name \in FirstNames, last_name \in LastNames,
          role \in RoleKeys, username \in Usernames :
          Create(email, first_name, last_name, role, username)
    \/ \E u \in ApiUsers : CreateUser(u)
    \/ \E active_only \in BOOLEAN : ListUsers(active_only)
    \/ \E env \in Answers : ProfileLookupExits(env)
    \/ \E env \in Answers : CreateRecordExits(env)
    \/ \E env \in UserQueryAnswers : UserQueryExits(env)

Spec == Init /\ [][Next]_vars

(***************************************************************************)
(* Vocabulary of the properties.                                           *)
(***************************************************************************)
\* The invocations answered so far.
Runs == 1..Len(resps)

\* The shell was spawned and found the tool: what exits is the tool itself.
ToolRan(e) == e.spawn = "ok" /\ e.sf

\* d is a JSON object with the member key.
HasMember(d, key) == d.t = "dict" /\ key \in DOMAIN d.v

\* The default message of each copy of the executor for a standard error
\* that parses but has no message.
DefaultMessage(i) ==
    IF i = "shared" THEN PyStr("Salesforce CLI command failed.") ELSE PyStr("Command failed")

\* The create command or create_user has been started.
Creating == args.cmd \in {"create", "create_user"}

(***************************************************************************)
(* C1.  A run that exits with code zero and writes valid JSON with a       *)
(* top-level `result` makes the executor return, without raising, a value  *)
(* that carries that `result` unchanged; {"result":{"id":"U1"}} gives a    *)
(* payload whose id is "U1".                                               *)
(***************************************************************************)
C1_SuccessCarriesResult ==
    \A i \in Runs :
        LET e == resps[i]
            d == json_loads(e.stdout)
        IN  (ToolRan(e) /\ e.returncode = 0 /\ d.ok /\ HasMember(d.val, "result")) =>
              /\ rets[i].status = "returned"
              /\ HasMember(rets[i].value, "result")
              /\ rets[i].value.v["result"] = d.val.v["result"]
              /\ (e.stdout = "{\"result\":{\"id\":\"U1\"}}" =>
                    rets[i].value.v["result"] = PyDict("id" :> PyStr("U1")))

C1_Witness ==
    \E i \in Runs :
        /\ ToolRan(resps[i]) /\ resps[i].returncode = 0
        /\ resps[i].stdout = "{\"result\":{\"id\":\"U1\"}}"
        /\ rets[i].status = "returned"
        /\ rets[i].value.v["result"].v["id"] = PyStr("U1")

(***************************************************************************)
(* C2.  A run that exits with a non-zero code and whose standard error     *)
(* parses as JSON makes the executor fail with CommandFailed: carrying the *)
(* `message` member when there is one, the default message otherwise,      *)
(* whatever JSON value the standard error is.                              *)
(***************************************************************************)
C2_ParsedStderrIsCommandFailed ==
    \A i \in Runs :
        LET e == resps[i]
            d == json_loads(e.stderr)
        IN  (ToolRan(e) /\ e.returncode # 0 /\ d.ok) =>
              /\ rets[i].status = "raised"
              /\ rets[i].exc = "ClickException"
              /\ rets[i].kind = "CommandFailed"
              /\ rets[i].msg = IF HasMember(d.val, "message") THEN d.val.v["message"]
                               ELSE DefaultMessage(impl)

(***************************************************************************)
(* C3.  A run that exits with a non-zero code and whose standard error is  *)
(* empty or does not parse as JSON makes the executor fail with            *)
(* CommandFailed: carrying the raw standard error when it is not empty,    *)
(* a fixed message when it is.                                             *)
(***************************************************************************)
C3_RawStderrIsCommandFailed ==
    \A i \in Runs :
        LET e == resps[i]
        IN  (ToolRan(e) /\ e.returncode # 0 /\ (e.stderr = "" \/ ~json_loads(e.stderr).ok)) =>
              /\ rets[i].status = "raised"
              /\ rets[i].kind = "CommandFailed"
              /\ rets[i].msg.t = "str"
              /\ IF e.stderr # "" THEN Contains(rets[i].msg.v, e.stderr)
                 ELSE rets[i].msg \in {PyStr("Salesforce CLI command failed."),
                                       PyStr("Unknown error")}

(***************************************************************************)
(* C4.  When the tool cannot be located by the shell that launches it, the *)
(* executor fails with ExecutableNotFound, not with CommandFailed.         *)
(***************************************************************************)
C4_MissingToolIsExecutableNotFound ==
    \A i \in Runs :
        (resps[i].spawn = "ok" /\ ~resps[i].sf) =>
            /\ rets[i].status = "raised"
            /\ rets[i].kind = "ExecutableNotFound"

(***************************************************************************)
(* C5.  A run that exits with code zero and whose standard output is not   *)
(* valid JSON (the empty output included) makes the executor fail with the *)
(* response parse error: the ClickException of the shared executor's       *)
(* JSONDecodeError handler, or the JSONDecodeError itself in the copy that *)
(* has no handler; never CommandFailed, never a return.                    *)
(***************************************************************************)
C5_BadStdoutIsParseError ==
    \A i \in Runs :
        LET e == resps[i]
        IN  (ToolRan(e) /\ e.returncode = 0 /\ ~json_loads(e.stdout).ok) =>
              /\ rets[i].status = "raised"
              /\ rets[i].kind # "CommandFailed"
              /\ \/ rets[i].exc = "ClickException" /\ rets[i].kind = "ResponseParseError"
                 \/ rets[i].exc = "JSONDecodeError"
              /\ impl = "shared" => rets[i].kind = "ResponseParseError"

C5_Witness ==
    \E i \in Runs :
        /\ impl = "shared"
        /\ ToolRan(resps[i]) /\ resps[i].returncode = 0 /\ resps[i].stdout = ""
        /\ rets[i].kind = "ResponseParseError"

(***************************************************************************)
(* C6.  A create that succeeds has issued exactly two invocations, in this *)
(* order: the profile lookup for the display name of the user's role (role *)
(* "admin" looks up "System Administrator"), then the create-record call   *)
(* whose field list carries the Id of the lookup's first record as         *)
(* ProfileId; the User's id is the `id` of the create response.            *)
(***************************************************************************)
LookupLine(name) ==
    "sf data query --query \"SELECT Id FROM Profile WHERE Name = '" \o name \o "'\" --json"

DisplayName(role) ==
    CASE role = "STANDARD" -> "Standard User"
      [] role = "ADMIN" -> "System Administrator"
      [] role = "READ_ONLY" -> "Read Only"

C6_CreateIssuesLookupThenCreate ==
    (Creating /\ pc = "done" /\ outcome.status = "returned") =>
        /\ Len(log) = 2
        /\ log[1] = LookupLine(DisplayName(user[1].role))
        /\ (args.role = "admin" => log[1] = LookupLine("System Administrator"))
        /\ StartsWithAt(log[2], 1, "sf data create record --sobject User --values \"")
        /\ Contains(log[2],
             " ProfileId=" \o rets[1].value.v["result"].v["records"].v[1].v["Id"].v \o " ")
        /\ user[1].id = rets[2].value.v["result"].v["id"]

C6_Witness ==
    /\ args.cmd = "create" /\ args.role = "admin"
    /\ pc = "done" /\ outcome.status = "returned"
    /\ Len(log) = 2
    /\ user[1].id = PyStr("U1")

(***************************************************************************)
(* C7.  _get_profile_id fails with ProfileNotFound when the lookup         *)
(* returned a response with zero records (an empty or absent records       *)
(* list), and otherwise returns the Id of the first record, however many   *)
(* records follow it.                                                      *)
(***************************************************************************)
ZeroRecords(doc) ==
    /\ doc.t = "dict"
    /\ \/ ~HasMember(doc, "result")
       \/ /\ doc.v["result"].t = "dict"
          /\ \/ ~HasMember(doc.v["result"], "records")
             \/ doc.v["result"].v["records"] = PyList(<<>>)

SomeRecords(doc) ==
    /\ HasMember(doc, "result")
    /\ HasMember(doc.v["result"], "records")
    /\ doc.v["result"].v["records"].t = "list"
    /\ Len(doc.v["result"].v["records"].v) >= 1
    /\ HasMember(doc.v["result"].v["records"].v[1], "Id")

C7_ProfileIdIsFirstRecord ==
    (Creating /\ Len(rets) >= 1 /\ rets[1].status = "returned") =>
        /\ ZeroRecords(rets[1].value) =>
              /\ pc = "done"
              /\ outcome.status = "raised"
              /\ outcome.kind = "ProfileNotFound"
              /\ outcome.msg =
                   PyStr("Profile not found for role: " \o DisplayName(user[1].role))
              /\ Len(log) = 1
        /\ SomeRecords(rets[1].value) =>
              /\ pc \in {"create", "done"}
              /\ Len(log) = 2
              /\ profile_id = rets[1].value.v["result"].v["records"].v[1].v["Id"]

C7_Witness ==
    /\ Creating /\ pc = "create"
    /\ rets[1].status = "returned"
    /\ SomeRecords(rets[1].value)
    /\ Len(rets[1].value.v["result"].v["records"].v) = 2
    /\ rets[1].value.v["result"].v["records"].v[2].v["Id"] = PyStr("P1")
    /\ profile_id = PyStr("P2")

(***************************************************************************)
(* C8.  The create command given a role key that names no member of        *)
(* UserRole fails with InvalidRole and spawns nothing: no profile lookup,  *)
(* no create-record invocation.                                            *)
(***************************************************************************)
RecognisedKeys == {"standard", "admin", "read_only"}

C8_InvalidRoleSpawnsNothing ==
    (args.cmd = "create" /\ args.role \notin RecognisedKeys) =>
        /\ pc = "done"
        /\ outcome.status = "raised"
        /\ outcome.kind = "InvalidRole"
        /\ log = <<>>
        /\ resps = <<>>
        /\ user = <<>>

C8_Witness ==
    /\ impl = "sf_users"
    /\ args.cmd = "create" /\ args.role = "readonly"
    /\ pc = "done"
    /\ outcome.exc = "Abort" /\ outcome.kind = "InvalidRole"
    /\ log = <<>>

(***************************************************************************)
(* C9.  A User's id is set only from the `id` of a create response that    *)
(* the executor returned, or from the `Id` of a query record: the User     *)
(* built for creation has no id while its invocations run, and has none    *)
(* when create fails at any step.                                          *)
(***************************************************************************)
C9_IdOnlyFromResponse ==
    /\ user # <<>> =>
          /\ pc \in {"lookup", "create"} => user[1].id = PyNone
          /\ (pc = "done" /\ outcome.status = "raised") => user[1].id = PyNone
          /\ user[1].id # PyNone =>
                /\ pc = "done" /\ outcome.status = "returned"
                /\ Len(rets) = 2 /\ rets[2].status = "returned"
                /\ HasMember(rets[2].value, "result")
                /\ HasMember(rets[2].value.v["result"], "id")
                /\ user[1].id = rets[2].value.v["result"].v["id"]
    /\ \A k \in 1..Len(users) :
          LET record == rets[1].value.v["result"].v["records"].v[k]
          IN  users[k].id = IF HasMember(record, "Id") THEN record.v["Id"] ELSE PyNone

C9_Witness ==
    /\ Creating /\ pc = "done"
    /\ outcome.status = "returned"
    /\ resps[2].stdout = " {\"status\":0, \"result\":{\"id\":\"U2\"}}\n"
    /\ user[1].id = PyStr("U2")

(***************************************************************************)
(* C10.  For every User given to create_user, with an empty, absent or     *)
(* non-empty email, first name, last name and username, no Key=Value entry *)
(* of the field list has an empty value, and there is a FirstName entry    *)
(* exactly when the first name is non-empty.                               *)
(***************************************************************************)
\* The position of the first "=" of an entry.
EqualsAt(entry) ==
    CHOOSE i \in 1..Len(entry) :
        Ch(entry, i) = "=" /\ \A j \in 1..(i - 1) : Ch(entry, j) # "="
KeyOf(entry) == SubSeq(entry, 1, EqualsAt(entry) - 1)
ValueOf(entry) == SubSeq(entry, EqualsAt(entry) + 1, Len(entry))

C10_NoEmptyValue ==
    values # <<>> =>
        /\ \A k \in 1..Len(emitted(values)) : ValueOf(emitted(values)[k]) # ""
        /\ (\E k \in 1..Len(emitted(values)) : KeyOf(emitted(values)[k]) = "FirstName")
             <=> Truthy(user[1].first_name)

(***************************************************************************)
(* C11.  The field list carries an Alias entry exactly when the user has a *)
(* non-empty username; its value is the first five characters of the       *)
(* username, the whole username when it is shorter, without padding: "ab"  *)
(* gives "ab", "abcdefg" gives "abcde".                                    *)
(***************************************************************************)
\* The entries of the field list whose key is `key`.
EntriesOf(key) == LET has(entry) == KeyOf(entry) = key IN SelectSeq(emitted(values), has)

C11_AliasIsFirstFive ==
    values # <<>> =>
        LET u == user[1].username
            aliases == EntriesOf("Alias")
        IN  IF u.t = "str" /\ u.v # ""
            THEN /\ Len(aliases) = 1
                 /\ Len(ValueOf(aliases[1])) = (IF Len(u.v) < 5 THEN Len(u.v) ELSE 5)
                 /\ \A i \in 1..Len(ValueOf(aliases[1])) :
                        Ch(ValueOf(aliases[1]), i) = Ch(u.v, i)
                 /\ (u.v = "ab" => aliases[1] = "Alias=ab")
                 /\ (u.v = "abcdefg" => aliases[1] = "Alias=abcde")
                 /\ Contains(log[2], " " \o aliases[1] \o " ProfileId=")
            ELSE /\ Len(aliases) = 0
                 /\ ~Contains(log[2], "Alias=")

C11_Witness ==
    /\ pc = "create"
    /\ user[1].username = PyStr("abcdefg")
    /\ values[5] = "Alias=abcde"
    /\ Contains(log[2], " Alias=abcde ")

(***************************************************************************)
(* C12.  The field list of every create call holds Username, Email,        *)
(* LastName, ProfileId, TimeZoneSidKey, LocaleSidKey, EmailEncodingKey and *)
(* LanguageLocaleKey, once each and in this order; the value of Username   *)
(* is the user's email, also when the user's username is another string.   *)
(***************************************************************************)
FixedKeys ==
    << "Username", "Email", "LastName", "ProfileId", "TimeZoneSidKey", "LocaleSidKey",
       "EmailEncodingKey", "LanguageLocaleKey" >>

C12_FixedFieldsInOrder ==
    values # <<>> =>
        LET es == emitted(values)
            fixed(entry) == \E j \in 1..Len(FixedKeys) : FixedKeys[j] = KeyOf(entry)
            kept == SelectSeq(es, fixed)
        IN  /\ [k \in 1..Len(kept) |-> KeyOf(kept[k])] = FixedKeys
            /\ user[1].email.t = "str" =>
                  /\ kept[1] = "Username=" \o user[1].email.v
                  /\ kept[2] = "Email=" \o user[1].email.v
            /\ user[1].last_name.t = "str" => kept[3] = "LastName=" \o user[1].last_name.v
            /\ profile_id.t = "str" => kept[4] = "ProfileId=" \o profile_id.v
            /\ SubSeq(kept, 5, 8) =
                  << "TimeZoneSidKey=America/New_York", "LocaleSidKey=en_US",
                     "EmailEncodingKey=UTF-8", "LanguageLocaleKey=en_US" >>
            /\ log[2] = "sf data create record --sobject User --values \""
                           \o join(" ", es) \o "\" --json"

C12_Witness ==
    /\ args.cmd = "create" /\ pc = "create"
    /\ user[1].username = PyStr("ab")
    /\ user[1].email = PyStr("a@x.com")
    /\ values[1] = "Username=a@x.com"
    /\ Len(emitted(values)) = 10

(***************************************************************************)
(* C13.  _parse_role maps the display name of each of the three roles back *)
(* to the role: a listed user whose record carries Profile.Name equal to   *)
(* the display name of r has the role r.                                   *)
(***************************************************************************)
\* list_users has returned.
Listed == args.cmd = "list_users" /\ pc = "done" /\ outcome.status = "returned"

\* The records of the answer to the users query, <<>> when it has none.
ListedRecords ==
    LET d == rets[1].value
    IN  IF /\ HasMember(d, "result")
           /\ HasMember(d.v["result"], "records")
           /\ d.v["result"].v["records"].t = "list"
        THEN d.v["result"].v["records"].v
        ELSE <<>>

\* Profile.Name of a record, None when the record has no Profile or no Name.
ProfileNameOf(record) ==
    IF HasMember(record, "Profile") /\ HasMember(record.v["Profile"], "Name")
    THEN record.v["Profile"].v["Name"]
    ELSE PyNone

C13_DisplayNameRoundTrip ==
    Listed =>
        /\ \A r \in {"STANDARD", "ADMIN", "READ_ONLY"} :
              parse_role(PyStr(DisplayName(r))) = PyOk(PyStr(r))
        /\ \A k \in 1..Len(ListedRecords) : \A r \in {"STANDARD", "ADMIN", "READ_ONLY"} :
              ProfileNameOf(ListedRecords[k]) = PyStr(DisplayName(r)) =>
                  k <= Len(users) /\ users[k].role = r

C13_Witness ==
    /\ Listed
    /\ Len(users) = 2
    /\ ProfileNameOf(ListedRecords[1]) = PyStr("Read Only")
    /\ users[1].role = "READ_ONLY"
    /\ ProfileNameOf(ListedRecords[2]) = PyStr("System Administrator")
    /\ users[2].role = "ADMIN"

(***************************************************************************)
(* C14.  A profile name that holds neither "Administrator" nor "Read Only" *)
(* (the absent and the empty name included, and the keywords in another    *)
(* case) is classified STANDARD, and classifying it raises nothing.        *)
(***************************************************************************)
\* The name holds none of the two keywords.
Unclassified(name) ==
    \/ name = PyNone
    \/ name.t = "str" /\ ~Contains(name.v, "Administrator") /\ ~Contains(name.v, "Read Only")

\* The answer to the users query is a list of objects with only such names.
OnlyUnclassified ==
    /\ ListedRecords # <<>>
    /\ \A k \in 1..Len(ListedRecords) :
          /\ ListedRecords[k].t = "dict"
          /\ HasMember(ListedRecords[k], "Profile") =>
                ListedRecords[k].v["Profile"].t \in {"None", "dict"}
          /\ Unclassified(ProfileNameOf(ListedRecords[k]))

C14_OtherNamesAreStandard ==
    (args.cmd = "list_users" /\ pc = "done" /\ rets[1].status = "returned") =>
        /\ OnlyUnclassified => outcome.status = "returned"
        /\ outcome.status = "returned" =>
              \A k \in 1..Len(ListedRecords) :
                  Unclassified(ProfileNameOf(ListedRecords[k])) =>
                      k <= Len(users) /\ users[k].role = "STANDARD"

C14_Witness ==
    /\ Listed
    /\ OnlyUnclassified
    /\ Len(users) = 2
    /\ ProfileNameOf(ListedRecords[1]) = PyStr("Guest read only administrator")
    /\ users[1].role = "STANDARD"
    /\ ProfileNameOf(ListedRecords[2]) = PyStr("")
    /\ users[2].role = "STANDARD"

(***************************************************************************)
(* C15.  list_users returns one User for each record of the answer, in the *)
(* order of the records: id, username, email, first_name and last_name are *)
(* the record's Id, Username, Email, FirstName and LastName (None when the *)
(* record has none), is_active is IsActive or False without it, role is    *)
(* the class of Profile.Name, STANDARD without a Profile.  An answer with  *)
(* an empty list of records gives the empty list and no error.             *)
(***************************************************************************)
\* The member `key` of a record, `default` when the record has none.
FieldOf(record, key, default) == IF HasMember(record, key) THEN record.v[key] ELSE default

\* The role a profile name stands for.
RoleOfName(name) ==
    IF Unclassified(name) THEN "STANDARD"
    ELSE IF Contains(name.v, "Administrator") THEN "ADMIN"
    ELSE "READ_ONLY"

C15_OneUserPerRecord ==
    /\ Listed =>
          /\ Len(users) = Len(ListedRecords)
          /\ \A k \in 1..Len(ListedRecords) :
                /\ users[k].id = FieldOf(ListedRecords[k], "Id", PyNone)
                /\ users[k].username = FieldOf(ListedRecords[k], "Username", PyNone)
                /\ users[k].email = FieldOf(ListedRecords[k], "Email", PyNone)
                /\ users[k].first_name = FieldOf(ListedRecords[k], "FirstName", PyNone)
                /\ users[k].last_name = FieldOf(ListedRecords[k], "LastName", PyNone)
                /\ users[k].is_active = FieldOf(ListedRecords[k], "IsActive", PyBool(FALSE))
                /\ users[k].role = RoleOfName(ProfileNameOf(ListedRecords[k]))
                /\ ~HasMember(ListedRecords[k], "Profile") => users[k].role = "STANDARD"
    /\ (/\ args.cmd = "list_users" /\ pc = "done" /\ rets[1].status = "returned"
        /\ HasMember(rets[1].value, "result")
        /\ HasMember(rets[1].value.v["result"], "records")
        /\ rets[1].value.v["result"].v["records"] = PyList(<<>>)) =>
            outcome.status = "returned" /\ users = <<>>

C15_Witness ==
    /\ Listed
    /\ Len(users) = 2
    /\ users[1] = User(PyStr("U4"), PyNone, PyNone, PyNone, PyNone, "STANDARD", PyBool(TRUE))
    /\ users[2] = User(PyStr("U3"), PyNone, PyStr("c@x.com"), PyNone, PyNone, "READ_ONLY",
                       PyBool(FALSE))

(***************************************************************************)
(* C16.  list_users spawns one invocation, a data query: its query holds   *)
(* `WHERE IsActive = true` exactly when active_only is true and ends with  *)
(* `ORDER BY LastName` for both values of active_only.                     *)
(***************************************************************************)
\* s ends with lit.
EndsWith(s, lit) == StartsWithAt(s, Len(s) - Len(lit) + 1, lit)

C16_OneQueryFilteredAndOrdered ==
    args.cmd = "list_users" =>
        /\ Len(log) = 1
        /\ Len(resps) = (IF pc = "done" THEN 1 ELSE 0)
        /\ StartsWithAt(log[1], 1, "sf data query --query \"SELECT Id, Username, Email, "
                                     \o "FirstName, LastName, Profile.Name, IsActive FROM User ")
        /\ Contains(log[1], "WHERE IsActive = true") <=> args.active_only
        /\ EndsWith(log[1], " ORDER BY LastName\" --json")

C16_Witness ==
    /\ Listed
    /\ ~args.active_only
    /\ Len(log) = 1
    /\ ~Contains(log[1], "WHERE")
    /\ Len(users) = 1

(***************************************************************************)
(* C17.  Every invocation is spawned once and answered once: an invocation *)
(* that fails (a non-zero exit, a tool that is not found, an answer that   *)
(* does not parse) ends the command with no further spawn, no command line *)
(* is spawned twice, create spawns at most two and list_users at most one. *)
(***************************************************************************)
C17_NoRetry ==
    /\ Len(rets) = Len(resps)
    /\ Len(log) = Len(resps) + (IF pc \in {"lookup", "create", "query"} THEN 1 ELSE 0)
    /\ Len(log) <= (IF Creating THEN 2 ELSE 1)
    /\ \A i \in 1..Len(log) : \A j \in 1..Len(log) : i # j => log[i] # log[j]
    /\ \A i \in Runs :
          rets[i].status = "raised" =>
              /\ pc = "done"
              /\ outcome.status = "raised"
              /\ Len(log) = i
    /\ (pc = "done" /\ outcome.status = "raised") => Len(log) = Len(resps)

C17_Witness ==
    /\ Creating /\ pc = "done"
    /\ Len(log) = 1 /\ Len(resps) = 1
    /\ resps[1].spawn = "ok" /\ ~resps[1].sf
    /\ rets[1].status = "raised"

(***************************************************************************)
(* C18.  Every invocation spawned by create, by list_users and by the      *)
(* profile lookup names the org alias the manager was constructed with     *)
(* when it is not the default one.                                         *)
(***************************************************************************)
C18_OrgAliasTargeted ==
    target_org # "default" => \A i \in 1..Len(log) : Contains(log[i], target_org)

(***************************************************************************)
(* C19.  An invocation that exits with code zero and whose JSON has not    *)
(* the expected shape (no `result`, no `records` in the result of a query, *)
(* no `id` in the result of a create) ends the command with a failure:     *)
(* list_users returns no list, the empty one included, and create_user     *)
(* returns no User.                                                        *)
(***************************************************************************)
\* doc has a result with the member key.
HasResultWith(doc, key) == HasMember(doc, "result") /\ HasMember(doc.v["result"], key)

C19_NoSilentDefault ==
    /\ (/\ args.cmd = "list_users" /\ pc = "done" /\ rets[1].status = "returned"
        /\ ~HasResultWith(rets[1].value, "records")) =>
            outcome.status = "raised" /\ users = <<>>
    /\ (/\ Creating /\ pc = "done" /\ Len(rets) = 1 /\ rets[1].status = "returned"
        /\ ~HasResultWith(rets[1].value, "records")) =>
            outcome.status = "raised" /\ user[1].id = PyNone
    /\ (/\ Creating /\ pc = "done" /\ Len(rets) = 2 /\ rets[2].status = "returned"
        /\ ~HasResultWith(rets[2].value, "id")) =>
            outcome.status = "raised" /\ user[1].id = PyNone

(***************************************************************************)
(* C20.  What the caller of create sees when the tool reports a failure    *)
(* (a non-zero exit) is never what it sees when the profile lookup returns *)
(* zero records: the exception raised and its message are not both the     *)
(* same.                                                                   *)
(***************************************************************************)
\* What the caller sees when the lookup for the role returned zero records.
ZeroRecordsSeen(role) ==
    [exc |-> IF impl = "sf_users" /\ args.cmd = "create" THEN "Abort" ELSE "ClickException",
     msg |-> PyStr("Profile not found for role: " \o DisplayName(role))]

C20_ProfileNotFoundIsDistinct ==
    (/\ Creating /\ pc = "done" /\ Len(resps) >= 1
     /\ ToolRan(resps[Len(resps)]) /\ resps[Len(resps)].returncode # 0) =>
        [exc |-> outcome.exc, msg |-> outcome.msg] # ZeroRecordsSeen(user[1].role)

(***************************************************************************)
(* C21.  When the profile lookup of a create fails, in the executor (the   *)
(* command failed, the tool was not found, the answer did not parse) or    *)
(* for want of a record, no create-record invocation is spawned and the    *)
(* create ends with that failure, the same kind and the same message, and  *)
(* no User is returned.                                                    *)
(***************************************************************************)
C21_FailedLookupStopsCreate ==
    (Creating /\ Len(rets) >= 1) =>
        /\ rets[1].status = "raised" =>
              /\ pc = "done"
              /\ Len(log) = 1 /\ Len(resps) = 1
              /\ values = <<>>
              /\ outcome.status = "raised"
              /\ outcome.kind = rets[1].kind
              /\ outcome.msg = rets[1].msg
              /\ args.cmd = "create_user" => outcome = rets[1]
              /\ user[1].id = PyNone
        /\ (rets[1].status = "returned" /\ ZeroRecords(rets[1].value)) =>
              /\ pc = "done"
              /\ Len(log) = 1 /\ Len(resps) = 1
              /\ values = <<>>
              /\ outcome.status = "raised"
              /\ outcome.kind = "ProfileNotFound"
              /\ user[1].id = PyNone

C21_Witness ==
    /\ args.cmd = "create_user" /\ pc = "done"
    /\ resps[1].returncode = 1 /\ resps[1].stderr = "{\"message\":\"dup\"}"
    /\ rets[1].kind = "CommandFailed"
    /\ outcome = rets[1]
    /\ outcome.msg = PyStr("dup")
    /\ Len(log) = 1

(***************************************************************************)
(* C22.  A role key that the create command accepts (click lets it         *)
(* through, the default "standard" included) names a member of UserRole:   *)
(* the User is built with that role and the command does not fail on the   *)
(* key, in users_commands.py and in sf_users_cli.py.                       *)
(***************************************************************************)
C22_AcceptedKeysResolve ==
    (args.cmd = "create" /\ outcome.exc # "BadParameter") =>
        /\ outcome.kind # "InvalidRole"
        /\ user # <<>>
        /\ user[1].role \in {"STANDARD", "ADMIN", "READ_ONLY"}

(***************************************************************************)
(* C23.  For every answer of the environment (exit code, standard output,  *)
(* standard error), _run_sf_command of utils/sf_command_executor.py and    *)
(* UserManager._run_sf_command of sf_users_cli.py end the same way: both   *)
(* return the same document, or both raise the same exception with the     *)
(* same message.                                                           *)
(***************************************************************************)
\* The command of a spawned command line "sf <command> --json".
CommandOf(line) == SubSeq(line, 4, Len(line) - 7)

\* What the caller of an executor observes of its end.
Observed(r) == [status |-> r.status, exc |-> r.exc, msg |-> r.msg, value |-> r.value]

C23_ExecutorsEquivalent ==
    \A i \in Runs :
        ToolRan(resps[i]) =>
            Observed(run_sf_command(CommandOf(log[i]), resps[i]))
              = Observed(UserManager_run_sf_command(CommandOf(log[i]), resps[i]))

====
